---- MODULE Spec2Model ----
(***************************************************************************)
(* Model of the chronos durable engine (src/durable-engine/src).           *)
(*                                                                         *)
(* The durable store is the Postgres database behind PgPool: the tasks     *)
(* table and the task_events table.  Several engine instances share it.    *)
(* Each instance runs TaskEngine::process_task step by step (begin, the    *)
(* conditional UPDATE, the INSERT of the event, commit, the push onto      *)
(* active_tasks) and hosts the reconciliation loop.  The database layer    *)
(* (database.rs) and the gRPC service (api.rs) are callable by any client. *)
(* The Kafka consumer (queue.rs) is created and subscribed by main, handed  *)
(* to start_processing and dropped there unread: no message is ever handed  *)
(* over and no offset is stored or committed, so it has no state here.      *)
(*                                                                         *)
(* Time is counted in whole hours, so that the reconciliation query's      *)
(* INTERVAL '1 hour' is StuckWindow = 1.  Of a task row the model keeps    *)
(* the columns the engine writes or the data model constrains; id, name,   *)
(* workflow_id, parameters, created_at and updated_at are left out.        *)
(***************************************************************************)
EXTENDS Integers, Sequences, FiniteSets

\* ------------------------------------------------------------------ bounds
MaxNow == 2
MaxEvents == 3

\* --------------------------------------------------------- program constants
\* engine.rs:112  started_at < NOW() - INTERVAL '1 hour'
StuckWindow == 1

Engines == {"e1", "e2"}
Tasks == {"t1", "t2"}

NULL == -1
NoRow == [state |-> "<no row>"]
NoOwner == "<none>"

\* models.rs: the closed enum TaskState
TaskState == {"Queued", "Running", "Completed", "Failed", "Retrying",
              "Cancelled", "TimedOut"}

\* models.rs: impl Display for TaskState
ToString(s) ==
    CASE s = "Queued"    -> "QUEUED"
      [] s = "Running"   -> "RUNNING"
      [] s = "Completed" -> "COMPLETED"
      [] s = "Failed"    -> "FAILED"
      [] s = "Retrying"  -> "RETRYING"
      [] s = "Cancelled" -> "CANCELLED"
      [] s = "TimedOut"  -> "TIMED_OUT"

StateStrings == {ToString(s) : s \in TaskState}

\* database.rs: update_task_state takes new_state: &str, any string at all
NewStateInputs == StateStrings \cup {"BOGUS"}

\* max_retries and timeout_seconds of the tasks the API layer created.  The
\* timeout is counted in whole hours like every time of the model: 0 is a
\* timeout shorter than an hour.
MaxRetriesChoices == {0, 2}
TimeoutChoices == {0}

\* The ids with a row in the tasks table; every other id is unknown to the store.
StoredTasks == {"t1"}

VARIABLES
    tasks,          \* the tasks table: task id -> row, or NoRow
    events,         \* the task_events table, in commit order
    rowLock,        \* task id -> the engine whose open transaction wrote the row
    now,            \* the database clock, NOW()
    pc,             \* engine -> position inside process_task
    arg,            \* engine -> the task_id argument of the running call
    txNow,          \* engine -> NOW() of its open transaction (transaction start)
    ret,            \* engine -> what its last process_task call returned
    active_tasks,   \* engine -> its in-memory Vec<Uuid>
    reconAlive,     \* engine -> is its reconciliation loop still looping
    stuck,          \* the ids the last sweep of any instance warned about
    apiReply        \* the last UpdateTaskStateResponse of the gRPC service

vars == <<tasks, events, rowLock, now, pc, arg, txNow, ret, active_tasks,
          reconAlive, stuck, apiReply>>


\* ------------------------------------------------------------ store helpers
\* The row the API layer inserts for a new task (addTask; not part of src/):
\* state Queued, retry_count 0, no started_at/completed_at/result/error.
NewTask(mr, to) ==
    [state |-> ToString("Queued"), retry_count |-> 0, max_retries |-> mr,
     started_at |-> NULL, completed_at |-> NULL,
     timeout_seconds |-> to, result |-> NULL, error |-> NULL]

\* The event the API layer records with a new task: CREATED, previous = null.
CreatedEvent(t) ==
    [task_id |-> t, event_type |-> "CREATED", previous_state |-> "NULL",
     new_state |-> ToString("Queued"), timestamp |-> 0]


\* A WHERE clause that has lost its "AND state = $3".
UpdateMatches_IdOnly(row, expected) == row # NoRow

\* engine.rs 57-62: WHERE id = $2 AND state = $3
UpdateMatches(row, expected) == row # NoRow /\ row.state = expected

\* The UPDATE bound with $1 and $3 exchanged.
ExpectedState_Swapped == ToString("Running")

\* engine.rs 62: the value bound to $3
ExpectedState == ToString("Queued")

\* engine.rs 60: the value bound to $1
ClaimedState == ToString("Running")

\* engine.rs 57: SET state = $1, updated_at = NOW(), started_at = NOW()
\* (NOW() is the start time of the transaction)
ClaimRow(row, ts) ==
    [row EXCEPT !.state = ClaimedState, !.started_at = ts]

\* engine.rs 69-82: INSERT INTO task_events ... 'STATE_CHANGE', QUEUED, RUNNING, NOW()
StateChangeEvent(t, ts) ==
    [task_id |-> t, event_type |-> "STATE_CHANGE",
     previous_state |-> ToString("Queued"), new_state |-> ToString("Running"),
     timestamp |-> ts]

\* A bare update that also does the retry bookkeeping, unguarded.
BareUpdateRow_CountsRetry(row, new_state) ==
    [row EXCEPT !.state = new_state,
                !.retry_count = IF new_state = ToString("Retrying") THEN @ + 1 ELSE @]

\* A bare update that also records an outcome with the state it writes and
\* never clears it.
BareUpdateRow_RecordsOutcome(row, new_state) ==
    [row EXCEPT !.state = new_state,
                !.result = IF new_state = ToString("Completed") THEN 1 ELSE @,
                !.error = IF new_state = ToString("Failed") THEN 1 ELSE @]

\* database.rs 68-69: SET state = $1, updated_at = NOW() WHERE id = $2
BareUpdateRow(row, new_state) ==
    [row EXCEPT !.state = new_state]

\* An UPDATE that does not wait for the open transaction of another writer.
RowLockFree_NoWait(t) == TRUE

\* engine.rs 52-66: the UPDATE runs inside a transaction; the row it wrote is
\* locked until that transaction ends, and another UPDATE of the row waits.
RowLockFree(t) == rowLock[t] = NoOwner

ReleaseLocks(e) == [t \in Tasks |-> IF rowLock[t] = e THEN NoOwner ELSE rowLock[t]]

\* Transactions that have written a row and will insert one event at commit.
ClaimsInFlight == Cardinality({e \in Engines : pc[e] \in {"insert", "commit"}})

\* engine.rs 109-113: state = 'RUNNING' AND started_at < NOW() - INTERVAL '1 hour'
IsStuck(row, clock) ==
    /\ row # NoRow
    /\ row.state = ToString("Running")
    /\ row.started_at # NULL
    /\ row.started_at < clock - StuckWindow

StuckTasks == {t \in Tasks : IsStuck(tasks[t], now)}

NoResult == [kind |-> "none", cause |-> "none", task_id |-> NoOwner]
\* engine.rs 95: Ok(())
OkResult == [kind |-> "Ok", cause |-> "none", task_id |-> NoOwner]
\* engine.rs 52, 82, 84: `?` returns the error of the store
StoreError == [kind |-> "Err", cause |-> "StoreUnavailable", task_id |-> NoOwner]
\* engine.rs 64-66: fetch_one found no row, `?` returns the error; the record
\* keeps the id the UPDATE looked for
RowNotFound(t) == [kind |-> "Err", cause |-> "RowNotFound", task_id |-> t]

\* ----------------------------------------------------------------- Init
\* TaskEngine::new for every instance, start_processing has spawned the
\* reconciliation loop; the store holds the tasks the API layer created.
Init ==
    /\ \E mr \in MaxRetriesChoices, to \in TimeoutChoices :
          tasks = [t \in Tasks |-> IF t \in StoredTasks THEN NewTask(mr, to) ELSE NoRow]
    /\ events = <<CreatedEvent("t1")>>
    /\ rowLock = [t \in Tasks |-> NoOwner]
    /\ now = 0
    /\ pc = [e \in Engines |-> "idle"]
    /\ arg = [e \in Engines |-> NoOwner]
    /\ txNow = [e \in Engines |-> NULL]
    /\ ret = [e \in Engines |-> NoResult]
    /\ active_tasks = [e \in Engines |-> <<>>]
    /\ reconAlive = [e \in Engines |-> TRUE]
    /\ stuck = {}
    /\ apiReply = "none"

\* ------------------------------------------------- TaskEngine::process_task
\* engine.rs 52: self.db_pool.begin().await?
ProcessTaskBegin(e, t) ==
    /\ pc[e] = "idle"
    /\ pc' = [pc EXCEPT ![e] = "update"]
    /\ arg' = [arg EXCEPT ![e] = t]
    /\ txNow' = [txNow EXCEPT ![e] = now]
    /\ ret' = [ret EXCEPT ![e] = NoResult]
    /\ UNCHANGED <<tasks, events, rowLock, now, active_tasks, reconAlive,
                   stuck, apiReply>>

\* engine.rs 52: begin() fails, `?` returns the error
ProcessTaskBeginFails(e) ==
    /\ pc[e] = "idle"
    /\ ret' = [ret EXCEPT ![e] = StoreError]
    /\ UNCHANGED <<tasks, events, rowLock, now, pc, arg, txNow, active_tasks,
                   reconAlive, stuck, apiReply>>

\* engine.rs 55-66: the conditional UPDATE ... RETURNING *, fetch_one.
\* No row returned: fetch_one yields RowNotFound, `?` returns it as an error
\* and the dropped transaction rolls back.
ProcessTaskUpdate(e) ==
    /\ pc[e] = "update"
    /\ RowLockFree(arg[e])
    /\ IF UpdateMatches(tasks[arg[e]], ExpectedState)
       THEN /\ Len(events) + ClaimsInFlight < MaxEvents
            /\ rowLock' = [rowLock EXCEPT ![arg[e]] = e]
            /\ pc' = [pc EXCEPT ![e] = "insert"]
            /\ UNCHANGED <<ret, txNow, arg>>
       ELSE /\ pc' = [pc EXCEPT ![e] = "idle"]
            /\ ret' = [ret EXCEPT ![e] = RowNotFound(arg[e])]
            /\ txNow' = [txNow EXCEPT ![e] = NULL]
            /\ arg' = [arg EXCEPT ![e] = NoOwner]
            /\ UNCHANGED rowLock
    /\ UNCHANGED <<tasks, events, now, active_tasks, reconAlive, stuck,
                   apiReply>>

\* An INSERT step that already pushes the id onto active_tasks, before the
\* transaction has committed.
ProcessTaskInsert_PushesEarly(e) ==
    /\ pc[e] = "insert"
    /\ pc' = [pc EXCEPT ![e] = "commit"]
    /\ active_tasks' = [active_tasks EXCEPT ![e] = Append(@, arg[e])]
    /\ UNCHANGED <<tasks, events, rowLock, now, arg, txNow, ret,
                   reconAlive, stuck, apiReply>>

\* engine.rs 68-82: the INSERT of the event, inside the transaction
ProcessTaskInsert(e) ==
    /\ pc[e] = "insert"
    /\ pc' = [pc EXCEPT ![e] = "commit"]
    /\ UNCHANGED <<tasks, events, rowLock, now, arg, txNow, ret,
                   active_tasks, reconAlive, stuck, apiReply>>

\* engine.rs 84: tx.commit(): the row update and the event become visible together
ProcessTaskCommit(e) ==
    /\ pc[e] = "commit"
    /\ tasks' = [tasks EXCEPT ![arg[e]] = ClaimRow(tasks[arg[e]], txNow[e])]
    /\ events' = Append(events, StateChangeEvent(arg[e], txNow[e]))
    /\ rowLock' = ReleaseLocks(e)
    /\ pc' = [pc EXCEPT ![e] = "push"]
    /\ txNow' = [txNow EXCEPT ![e] = NULL]
    /\ UNCHANGED <<now, arg, ret, active_tasks, reconAlive, stuck, apiReply>>

\* engine.rs 86-95: active_tasks.push(task_id); Ok(())
ProcessTaskPush(e) ==
    /\ pc[e] = "push"
    /\ active_tasks' = [active_tasks EXCEPT ![e] = Append(@, arg[e])]
    /\ ret' = [ret EXCEPT ![e] = OkResult]
    /\ pc' = [pc EXCEPT ![e] = "idle"]
    /\ arg' = [arg EXCEPT ![e] = NoOwner]
    /\ UNCHANGED <<tasks, events, rowLock, now, txNow, reconAlive, stuck,
                   apiReply>>

\* engine.rs 84: tx.commit().await? when the store applies the COMMIT and its
\* answer does not arrive (the connection is reset): the row update and the
\* event are committed, `?` returns the error and nothing is pushed.
ProcessTaskCommitAckLost(e) ==
    /\ pc[e] = "commit"
    /\ tasks' = [tasks EXCEPT ![arg[e]] = ClaimRow(tasks[arg[e]], txNow[e])]
    /\ events' = Append(events, StateChangeEvent(arg[e], txNow[e]))
    /\ rowLock' = ReleaseLocks(e)
    /\ pc' = [pc EXCEPT ![e] = "idle"]
    /\ ret' = [ret EXCEPT ![e] = StoreError]
    /\ txNow' = [txNow EXCEPT ![e] = NULL]
    /\ arg' = [arg EXCEPT ![e] = NoOwner]
    /\ UNCHANGED <<now, active_tasks, reconAlive, stuck, apiReply>>

\* engine.rs 66, 82, 84: the store fails the UPDATE or the INSERT, or refuses
\* the commit; `?` returns the error, the dropped transaction rolls back.
ProcessTaskStoreError(e) ==
    /\ pc[e] \in {"update", "insert", "commit"}
    /\ rowLock' = ReleaseLocks(e)
    /\ pc' = [pc EXCEPT ![e] = "idle"]
    /\ ret' = [ret EXCEPT ![e] = StoreError]
    /\ txNow' = [txNow EXCEPT ![e] = NULL]
    /\ arg' = [arg EXCEPT ![e] = NoOwner]
    /\ UNCHANGED <<tasks, events, now, active_tasks, reconAlive, stuck,
                   apiReply>>

\* --------------------------------------- TaskEngine::run_reconciliation_loop
\* engine.rs 105-124: one pass of the loop: the query, then a warning per row.
\* Nothing is written to the store.
Sweep(e) ==
    /\ reconAlive[e]
    /\ stuck' = StuckTasks
    /\ UNCHANGED <<tasks, events, rowLock, now, pc, arg, txNow, ret,
                   active_tasks, reconAlive, apiReply>>

\* engine.rs 115-116: fetch_all fails, `?` leaves the loop for good
SweepFails(e) ==
    /\ reconAlive[e]
    /\ reconAlive' = [reconAlive EXCEPT ![e] = FALSE]
    /\ UNCHANGED <<tasks, events, rowLock, now, pc, arg, txNow, ret,
                   active_tasks, stuck, apiReply>>

\* ------------------------------------------------------ process life cycle
\* The process dies at any point and is started again (main.rs 32-33:
\* TaskEngine::new, start_processing): its memory is lost, the database rolls
\* back its open transaction, a new reconciliation loop is spawned.
Crash(e) ==
    /\ rowLock' = ReleaseLocks(e)
    /\ pc' = [pc EXCEPT ![e] = "idle"]
    /\ arg' = [arg EXCEPT ![e] = NoOwner]
    /\ txNow' = [txNow EXCEPT ![e] = NULL]
    /\ ret' = [ret EXCEPT ![e] = NoResult]
    /\ active_tasks' = [active_tasks EXCEPT ![e] = <<>>]
    /\ reconAlive' = [reconAlive EXCEPT ![e] = TRUE]
    /\ UNCHANGED <<tasks, events, now, stuck, apiReply>>

\* ------------------------------------------------------------ database.rs
\* database.rs 63-77: update_task_state: one autocommitted UPDATE by id alone.
\* (For an id without a row the statement updates nothing and returns Ok: no
\* step of the model.)
UpdateTaskState(t, new_state) ==
    /\ tasks[t] # NoRow
    /\ RowLockFree(t)
    /\ tasks' = [tasks EXCEPT ![t] = BareUpdateRow(tasks[t], new_state)]
    /\ UNCHANGED <<events, rowLock, now, pc, arg, txNow, ret, active_tasks,
                   reconAlive, stuck, apiReply>>

\* ------------------------------------------------------------------ api.rs
\* api.rs 82-95: DurableEngineService::update_task_state logs the request and
\* answers success without touching the database.
ApiUpdateTaskState(t, new_state) ==
    /\ apiReply' = [success |-> TRUE]
    /\ UNCHANGED <<tasks, events, rowLock, now, pc, arg, txNow, ret,
                   active_tasks, reconAlive, stuck>>

\* The database clock advances.
Tick ==
    /\ now < MaxNow
    /\ now' = now + 1
    /\ UNCHANGED <<tasks, events, rowLock, pc, arg, txNow, ret,
                   active_tasks, reconAlive, stuck, apiReply>>

Next ==
    \/ \E e \in Engines, t \in Tasks : ProcessTaskBegin(e, t)
    \/ \E e \in Engines : ProcessTaskBeginFails(e)
    \/ \E e \in Engines : ProcessTaskUpdate(e)
    \/ \E e \in Engines : ProcessTaskInsert(e)
    \/ \E e \in Engines : ProcessTaskCommit(e)
    \/ \E e \in Engines : ProcessTaskCommitAckLost(e)
    \/ \E e \in Engines : ProcessTaskPush(e)
    \/ \E e \in Engines : ProcessTaskStoreError(e)
    \/ \E e \in Engines : Sweep(e)
    \/ \E e \in Engines : SweepFails(e)
    \/ \E e \in Engines : Crash(e)
    \/ \E t \in Tasks, s \in NewStateInputs : UpdateTaskState(t, s)
    \/ \E t \in Tasks, s \in NewStateInputs : ApiUpdateTaskState(t, s)
    \/ Tick

\* The operations that write the store or an instance's memory: the whole
\* program but the reconciliation loop and the gRPC service, which write
\* neither.
NextStore ==
    \/ \E e \in Engines, t \in Tasks : ProcessTaskBegin(e, t)
    \/ \E e \in Engines : ProcessTaskBeginFails(e)
    \/ \E e \in Engines : ProcessTaskUpdate(e)
    \/ \E e \in Engines : ProcessTaskInsert(e)
    \/ \E e \in Engines : ProcessTaskCommit(e)
    \/ \E e \in Engines : ProcessTaskCommitAckLost(e)
    \/ \E e \in Engines : ProcessTaskPush(e)
    \/ \E e \in Engines : ProcessTaskStoreError(e)
    \/ \E e \in Engines : Crash(e)
    \/ \E t \in Tasks, s \in NewStateInputs : UpdateTaskState(t, s)
    \/ Tick

SpecStore == Init /\ [][NextStore]_vars

\* The store's writers together with the reconciliation loops.
NextRecon ==
    \/ NextStore
    \/ \E e \in Engines : Sweep(e)
    \/ \E e \in Engines : SweepFails(e)

SpecRecon == Init /\ [][NextRecon]_vars

\* The engine on an intact store: signals are handled, the reconciliation
\* loops sweep, instances crash and restart, time passes.  No statement fails
\* and nothing outside the engine writes the store.
NextFair ==
    \/ \E e \in Engines, t \in Tasks : ProcessTaskBegin(e, t)
    \/ \E e \in Engines : ProcessTaskUpdate(e)
    \/ \E e \in Engines : ProcessTaskInsert(e)
    \/ \E e \in Engines : ProcessTaskCommit(e)
    \/ \E e \in Engines : ProcessTaskPush(e)
    \/ \E e \in Engines : Sweep(e)
    \/ \E e \in Engines : Crash(e)
    \/ Tick

\* What the scheduling guarantees: the clock advances, every reconciliation
\* loop wakes up every minute (engine.rs 103-106), and a call of process_task
\* that has begun runs to its end.  Nothing guarantees that process_task is
\* ever called, and a crash may or may not happen.
Fairness ==
    /\ WF_vars(Tick)
    /\ \A e \in Engines : WF_vars(Sweep(e))
    /\ \A e \in Engines : WF_vars(\/ ProcessTaskUpdate(e) \/ ProcessTaskInsert(e)
                                   \/ ProcessTaskCommit(e) \/ ProcessTaskPush(e))

SpecFair == Init /\ [][NextFair]_vars /\ Fairness

Spec == Init /\ [][Next]_vars


\* =================================================================== claims
Range(q) == {q[i] : i \in DOMAIN q}

\* The instances that hold task t in their active_tasks: they claimed it and
\* own its execution.
Owners(t) == {e \in Engines : t \in Range(active_tasks[e])}

\* The callers whose conditional UPDATE matched the row of t and whose
\* transaction is still open.
Holders(t) == {e \in Engines : pc[e] \in {"insert", "commit"} /\ arg[e] = t}

EventsOf(t) == SelectSeq(events, LAMBDA ev : ev.task_id = t)

ClaimEventsOf(t) == SelectSeq(events, LAMBDA ev :
                        ev.task_id = t /\ ev.event_type = "STATE_CHANGE")

\* Engine e leaves its UPDATE statement in this step with the verdict on the
\* row: not by a crash and not by a failure of the store.
UpdateDecided(e) ==
    /\ pc[e] = "update"
    /\ \/ pc'[e] = "insert"
       \/ pc'[e] = "idle" /\ ret'[e].cause = "RowNotFound"

\* Engine e's transaction is committed in this step, whether or not the
\* answer of the store reaches e.
Commits(e) ==
    /\ pc[e] = "commit"
    /\ \/ pc'[e] = "push"
       \/ pc'[e] = "idle" /\ Len(events') = Len(events) + 1

\* ---- C1
\* C1: at most one owner executes a task: no two engine instances hold the
\* same task id as claimed at the same time.
C1_SingleOwner == \A t \in Tasks : Cardinality(Owners(t)) <= 1

\* ---- C2
\* C2: of the callers racing the guarded Queued->Running transition on one task,
\* at most one is past the guard at a time, and a caller gets past the guard
\* only on a Queued row that no other open transaction has written; a commit
\* changes the row once, from Queued to Running, and appends exactly one
\* TaskEvent for it; every other racer, whose UPDATE is decided on the row after
\* that commit, observes the stale outcome (no row matched), holds nothing and
\* changes neither the row, the event log nor any instance's active_tasks.
C2_OneWinner ==
    [][\A t \in Tasks :
        /\ Cardinality(Holders(t)) <= 1
        /\ \A e \in Engines :
            /\ (pc[e] = "update" /\ arg[e] = t /\ pc'[e] = "insert")
                  => /\ tasks[t] # NoRow /\ tasks[t].state = ToString("Queued")
                     /\ Holders(t) = {}
            /\ (Commits(e) /\ arg[e] = t)
                  => /\ tasks[t].state = ToString("Queued")
                     /\ tasks'[t].state = ToString("Running")
                     /\ Len(events') = Len(events) + 1
                     /\ events'[Len(events')].task_id = t
                     /\ Len(ClaimEventsOf(t)') = Len(ClaimEventsOf(t)) + 1
            /\ (/\ UpdateDecided(e) /\ arg[e] = t
                /\ tasks[t] # NoRow
                /\ tasks[t].state = ToString("Running")
                /\ Len(ClaimEventsOf(t)) >= 1)
                  => /\ ret'[e] = RowNotFound(t)
                     /\ pc'[e] = "idle"
                     /\ e \notin Holders(t)'
                     /\ \A u \in Tasks : rowLock'[u] # e
                     /\ tasks' = tasks
                     /\ events' = events
                     /\ active_tasks' = active_tasks
      ]_vars

\* C2 witness: e1 won the race for t1: its claim is committed and its call is
\* still running (before the push), while the racing call of e2 for t1 has
\* ended with no row matched; t1 was changed once, to Running, and the log
\* holds exactly one claim event.
C2_Witness ==
    /\ pc["e1"] = "push" /\ arg["e1"] = "t1"
    /\ pc["e2"] = "idle" /\ ret["e2"] = RowNotFound("t1")
    /\ active_tasks["e2"] = <<>>
    /\ rowLock["t1"] = NoOwner
    /\ tasks["t1"].state = ToString("Running")
    /\ Len(ClaimEventsOf("t1")) = 1

\* ---- C3
\* C3: a 'task ready' signal delivered again for a task that has been claimed
\* (its Queued->Running event is committed and the row is no longer Queued) ends
\* at the UPDATE with no row matched: it never reaches the INSERT, adds no
\* TaskEvent and changes no field of the row.
C3_RedeliveryIsStale ==
    [][\A e \in Engines :
        (/\ UpdateDecided(e)
         /\ tasks[arg[e]] # NoRow
         /\ tasks[arg[e]].state # ToString("Queued")
         /\ Len(ClaimEventsOf(arg[e])) >= 1)
        => /\ pc'[e] = "idle"
           /\ ret'[e] = RowNotFound(arg[e])
           /\ tasks' = tasks
           /\ events' = events
           /\ active_tasks' = active_tasks
      ]_vars

\* C3 witness: t1 was claimed once by e1, which holds it, and the second delivery
\* to e2 has ended with no row matched; there is still exactly one claim event.
C3_Witness ==
    /\ active_tasks["e1"] = <<"t1">>
    /\ ret["e2"] = RowNotFound("t1")
    /\ active_tasks["e2"] = <<>>
    /\ tasks["t1"].state = ToString("Running")
    /\ Len(ClaimEventsOf("t1")) = 1

\* ---- C4
LastEventOf(t) == EventsOf(t)[Len(EventsOf(t))]

\* C4: every committed change of a task's state has its TaskEvent: the row's
\* state is the new_state of the task's latest event.
C4_RowMatchesAudit ==
    \A t \in Tasks : tasks[t] # NoRow =>
        /\ Len(EventsOf(t)) >= 1
        /\ LastEventOf(t).new_state = tasks[t].state

\* ---- C5
\* C5: a guarded transition whose expected state (Queued) differs from the row's
\* state, or whose task id has no row, ends with no row matched and leaves the
\* tasks table and the event log unchanged.
C5_MismatchChangesNothing ==
    [][\A e \in Engines :
        (/\ UpdateDecided(e)
         /\ (tasks[arg[e]] = NoRow \/ tasks[arg[e]].state # ToString("Queued")))
        => /\ ret'[e] = RowNotFound(arg[e])
           /\ pc'[e] = "idle"
           /\ rowLock' = rowLock
           /\ tasks' = tasks
           /\ events' = events
      ]_vars

\* C5 witness: a guarded transition expecting Queued was attempted on an id
\* without a row and another on the Running task t1, and both ended with no row
\* matched; t1 remains Running and the log holds its two events.
C5_Witness ==
    /\ ret["e1"] = RowNotFound("t2")
    /\ ret["e2"] = RowNotFound("t1")
    /\ tasks["t1"].state = ToString("Running")
    /\ tasks["t2"] = NoRow
    /\ Len(events) = 2

\* ---- C6
\* C6: a claim that matches zero rows ends as StaleTransition, which is not an
\* error: process_task reports no failure to its caller.
C6_StaleIsNoError ==
    \A e \in Engines : ret[e].cause = "RowNotFound" => ret[e].kind # "Err"

\* ---- C7
\* The legal edges of the task state machine.
LegalEdge(row, next) ==
    \/ <<row.state, next>> \in
          {<<ToString("Queued"), ToString("Running")>>,
           <<ToString("Queued"), ToString("Cancelled")>>,
           <<ToString("Running"), ToString("Completed")>>,
           <<ToString("Running"), ToString("Failed")>>,
           <<ToString("Running"), ToString("Cancelled")>>,
           <<ToString("Running"), ToString("TimedOut")>>,
           <<ToString("Retrying"), ToString("Queued")>>}
    \/ /\ row.state \in {ToString("Failed"), ToString("TimedOut")}
       /\ next = ToString("Retrying")
       /\ row.retry_count < row.max_retries

\* C7: only legal edges are ever applied: no step changes a task's state along
\* a pair outside the edge set.
C7_OnlyLegalEdges ==
    [][\A t \in Tasks :
        (tasks[t] # NoRow /\ tasks'[t].state # tasks[t].state)
            => LegalEdge(tasks[t], tasks'[t].state)]_vars

\* ---- C8
\* C8: every write of a task's state is the commit of an update that was
\* conditional on the row's state being the caller's expected state.
C8_AllWritesGuarded ==
    [][\A t \in Tasks :
        (tasks[t] # NoRow /\ tasks'[t].state # tasks[t].state)
            => \E e \in Engines :
                  /\ Commits(e) /\ arg[e] = t
                  /\ rowLock[t] = e
                  /\ tasks[t].state = ExpectedState]_vars

\* ---- C9
\* C9: retry_count <= max_retries for every task in every reachable state.
C9_RetryCountBounded ==
    \A t \in Tasks : tasks[t] # NoRow =>
        tasks[t].retry_count <= tasks[t].max_retries

\* C9 witness: a task with max_retries = 0 that has been claimed and was then
\* moved into Retrying.
C9_Witness ==
    /\ tasks["t1"].state = ToString("Retrying")
    /\ tasks["t1"].max_retries = 0
    /\ tasks["t1"].started_at # NULL
    /\ Len(ClaimEventsOf("t1")) >= 1

\* ---- C10
Terminal(row) ==
    \/ row.state \in {ToString("Completed"), ToString("Cancelled")}
    \/ /\ row.state \in {ToString("Failed"), ToString("TimedOut")}
       /\ row.retry_count = row.max_retries

\* C10: completed_at is non-null if and only if the task's state is terminal.
C10_CompletedAtIffTerminal ==
    \A t \in Tasks : tasks[t] # NoRow =>
        (tasks[t].completed_at # NULL <=> Terminal(tasks[t]))

\* ------------------------------------------------- reconciliation claims
\* A Running task whose started_at is older than now minus its own timeout.
Overdue(row, clock) ==
    /\ row # NoRow
    /\ row.state = ToString("Running")
    /\ row.started_at # NULL
    /\ row.started_at < clock - row.timeout_seconds

\* The sweep of this step selects task t: it warns about t and did not before.
SweepSelects(t) == t \notin stuck /\ t \in stuck'

\* ---- C11
\* C11: the sweep that selects a Running task past its own timeout with
\* retry_count < max_retries moves it out of Running to Retrying (or on to
\* Queued), increments retry_count by exactly 1 and appends a TaskEvent for the
\* Running->Retrying change.
C11_SweepRetries ==
    [][\A t \in Tasks :
        (/\ SweepSelects(t)
         /\ Overdue(tasks[t], now)
         /\ tasks[t].retry_count < tasks[t].max_retries)
        => /\ tasks'[t].state \in {ToString("Retrying"), ToString("Queued")}
           /\ tasks'[t].retry_count = tasks[t].retry_count + 1
           /\ Len(events') > Len(events)
           /\ \E i \in (Len(events) + 1)..Len(events') :
                 /\ events'[i].task_id = t
                 /\ events'[i].previous_state = ToString("Running")
                 /\ events'[i].new_state = ToString("Retrying")
      ]_vars

\* ---- C12
\* C12: the sweep that selects a Running task past its timeout with
\* retry_count = max_retries moves it to TimedOut or Failed with an error
\* description, and no engine instance commits a claim of a task that is in
\* that exhausted state.
C12_SweepExhausts ==
    [][\A t \in Tasks :
        /\ (/\ SweepSelects(t)
            /\ Overdue(tasks[t], now)
            /\ tasks[t].retry_count = tasks[t].max_retries)
           => /\ tasks'[t].state \in {ToString("TimedOut"), ToString("Failed")}
              /\ tasks'[t].error # NULL
        /\ (/\ tasks[t] # NoRow
            /\ tasks[t].state \in {ToString("TimedOut"), ToString("Failed")}
            /\ tasks[t].retry_count = tasks[t].max_retries)
           => ~ \E e \in Engines : Commits(e) /\ arg[e] = t
      ]_vars

\* ---- C18
\* C18: what a sweep selects is decided by each task's own timeout: in every
\* state the tasks the reconciliation query returns are exactly the Running
\* tasks whose started_at is older than now minus their timeout_seconds.
C18_SelectsByOwnTimeout ==
    \A t \in Tasks : t \in StuckTasks <=> Overdue(tasks[t], now)

\* ---- C19
\* C19: a store failure during a sweep does not end reconciliation: the
\* reconciliation loop of every running instance is still looping.
C19_SweepSurvivesFailure == \A e \in Engines : reconAlive[e]

\* ---- C13
\* C13: no task stays in Running forever: under fairness of the reconciliation
\* loop and an intact store, a Running task past its deadline (its owner has
\* crashed or stalled) eventually leaves Running.
C13_NoTaskLost ==
    \A t \in Tasks :
        Overdue(tasks[t], now) ~> (tasks[t].state # ToString("Running"))

\* ---- C14
\* The STATE_CHANGE events of task t carry strictly increasing timestamps.
IncreasingTimestamps(t) ==
    \A i \in 1..(Len(ClaimEventsOf(t)) - 1) :
        ClaimEventsOf(t)[i].timestamp < ClaimEventsOf(t)[i + 1].timestamp

\* C14: a task created with max_retries = 2 whose every execution times out is
\* driven by the sweeps to the terminal TimedOut, with exactly 6 state-change
\* events in strictly increasing timestamp order.
C14_ThreeTimeoutsExhaust ==
    \A t \in Tasks :
        (Overdue(tasks[t], now) /\ tasks[t].max_retries = 2)
            ~> (/\ tasks[t].state = ToString("TimedOut")
                /\ Len(ClaimEventsOf(t)) = 6
                /\ IncreasingTimestamps(t))

\* ---- C20
\* C20: a claim sets started_at, and a task claimed by an engine instance that
\* does not crash (it keeps the id in its active_tasks) eventually leaves
\* Running as Completed with the result or as Failed with the error.
C20_ClaimedTaskGetsOutcome ==
    /\ [][\A e \in Engines : Commits(e) =>
             /\ tasks'[arg[e]].state = ToString("Running")
             /\ tasks'[arg[e]].started_at # NULL]_vars
    /\ \A e \in Engines, t \in Tasks :
          (t \in Range(active_tasks[e]))
             ~> \/ t \notin Range(active_tasks[e])
                \/ /\ tasks[t].state = ToString("Completed")
                   /\ tasks[t].result # NULL
                \/ /\ tasks[t].state = ToString("Failed")
                   /\ tasks[t].error # NULL

\* ---- C15
\* Engine e gets a store failure back from process_task in this step.
StoreFails(e) == ret[e] # StoreError /\ ret'[e] = StoreError

\* C15: when the store fails at begin, at the conditional update, at the event
\* insert or at the commit, the call ends with an error, its transaction does
\* not commit, and the tasks table, the event log and the instances' memory are
\* exactly as before the step.
C15_StoreFailureChangesNothing ==
    [][\A e \in Engines : StoreFails(e) =>
          /\ ret'[e].kind = "Err"
          /\ pc'[e] = "idle"
          /\ tasks' = tasks
          /\ events' = events
          /\ active_tasks' = active_tasks
          /\ \A t \in Tasks : rowLock'[t] # e
      ]_vars

\* ------------------------------------------------------ data-model claims
\* ---- C21
\* C21: started_at is set if and only if the task has been Running: a task in
\* Running has a started_at, a started_at once set is kept, and a started_at is
\* only ever set by a step that leaves the task in Running.
C21_StartedAtIffEverRunning ==
    [][\A t \in Tasks : tasks[t] # NoRow =>
          /\ tasks'[t].state = ToString("Running") => tasks'[t].started_at # NULL
          /\ tasks[t].started_at # NULL => tasks'[t].started_at # NULL
          /\ (tasks[t].started_at = NULL /\ tasks'[t].started_at # NULL)
                => tasks'[t].state = ToString("Running")
      ]_vars

\* ---- C22
\* C22: result and error are never both present; result is present only in
\* Completed; error is present only on a task whose log has an event into
\* Failed or TimedOut.
C22_ResultErrorExclusive ==
    \A t \in Tasks : tasks[t] # NoRow =>
        /\ ~ (tasks[t].result # NULL /\ tasks[t].error # NULL)
        /\ tasks[t].result # NULL => tasks[t].state = ToString("Completed")
        /\ tasks[t].error # NULL =>
              \E i \in DOMAIN events :
                 /\ events[i].task_id = t
                 /\ events[i].new_state \in {ToString("Failed"), ToString("TimedOut")}

\* C22 witness: t1 was claimed (one committed Queued->Running, started_at set)
\* and its state was then written to Completed; it carries neither result nor
\* error.
C22_Witness ==
    /\ tasks["t1"].state = ToString("Completed")
    /\ tasks["t1"].started_at # NULL
    /\ Len(ClaimEventsOf("t1")) = 1
    /\ tasks["t1"].result = NULL
    /\ tasks["t1"].error = NULL

\* ---- C23
\* C23: retry_count changes only with a transition into Retrying, which
\* increases it by exactly 1 in the same update; every other step leaves it
\* unchanged.
C23_RetryBookkeeping ==
    [][\A t \in Tasks : tasks[t] # NoRow =>
          IF tasks'[t].state = ToString("Retrying")
             /\ tasks[t].state # ToString("Retrying")
          THEN tasks'[t].retry_count = tasks[t].retry_count + 1
          ELSE tasks'[t].retry_count = tasks[t].retry_count
      ]_vars

\* ---- C24
\* The events of task t form one chain that starts with CREATED and ends at the
\* state stored in the row.
ChainOf(t) ==
    LET evs == EventsOf(t) IN
    /\ Len(evs) >= 1
    /\ evs[1].event_type = "CREATED"
    /\ evs[1].previous_state = "NULL"
    /\ evs[1].new_state = ToString("Queued")
    /\ \A i \in 2..Len(evs) : evs[i].previous_state = evs[i - 1].new_state
    /\ evs[Len(evs)].new_state = tasks[t].state

\* C24: the TaskEvents of every task form one chain from CREATED to the row's
\* current state, and the log only grows: every step keeps the events there
\* are, in place.
C24_EventChain ==
    /\ [](\A t \in Tasks : tasks[t] # NoRow => ChainOf(t))
    /\ [][/\ Len(events') >= Len(events)
          /\ \A i \in DOMAIN events : events'[i] = events[i]]_vars

\* ---- C25
\* C25: terminal states are absorbing: no step changes the state of a task that
\* is Completed, Cancelled, or Failed/TimedOut with its retries exhausted, and
\* a Failed or TimedOut task with retries left only moves to Retrying.
C25_TerminalAbsorbing ==
    [][\A t \in Tasks : tasks[t] # NoRow =>
          /\ Terminal(tasks[t]) => tasks'[t].state = tasks[t].state
          /\ (/\ tasks[t].state \in {ToString("Failed"), ToString("TimedOut")}
              /\ tasks[t].retry_count < tasks[t].max_retries)
             => tasks'[t].state \in {tasks[t].state, ToString("Retrying")}
      ]_vars

\* ---- C26
\* How many times task t stands in the active_tasks lists of the instances.
ActiveCount(t) ==
    Cardinality(UNION {{<<e, i>> : i \in {j \in DOMAIN active_tasks[e] :
                                              active_tasks[e][j] = t}} :
                       e \in Engines})

\* C26: an id is pushed onto active_tasks only after the instance's claim has
\* committed: every id in active_tasks is backed by a committed Queued->Running
\* event of its own, a push happens only at the end of a call whose transaction
\* committed, and a call that returns an error adds nothing.
C26_PushAfterCommit ==
    /\ [](\A t \in Tasks : ActiveCount(t) <= Len(ClaimEventsOf(t)))
    /\ [][\A e \in Engines :
            /\ Len(active_tasks'[e]) > Len(active_tasks[e])
                  => /\ pc[e] = "push"
                     /\ ret'[e] = OkResult
                     /\ active_tasks'[e] = Append(active_tasks[e], arg[e])
                     /\ tasks[arg[e]].started_at # NULL
            /\ (ret'[e].kind = "Err" /\ ret'[e] # ret[e])
                  => active_tasks' = active_tasks
         ]_vars

\* C26 witness: e1 holds t1 after its committed claim, while e2's call for t1
\* ended with no row matched and left e2's list empty.
C26_Witness ==
    /\ active_tasks["e1"] = <<"t1">>
    /\ Len(ClaimEventsOf("t1")) = 1
    /\ ret["e1"] = OkResult
    /\ ret["e2"].kind = "Err"
    /\ active_tasks["e2"] = <<>>
    /\ pc["e2"] = "idle"

====
